---- MODULE Spec2Model ----
(***************************************************************************)
(* Model of src/main.js: a chat page bound to a DirectLine bot transport.  *)
(* The file holds two entry points: the plain DOM page (lines 1-139) and   *)
(* the dxChat page (lines 141-419).  A page runs exactly one of them; the  *)
(* variable "version" records which.  DirectLine, the dxChat widget and    *)
(* the browser are the environment: they deliver token responses, inbound  *)
(* activities, connection statuses, postActivity outcomes and user input.  *)
(* Every callback runs to completion, so each callback is one action.      *)
(* Texts are sequences of tokens: a user text is a sequence of characters, *)
(* a literal of the source is one token.                                   *)
(***************************************************************************)
EXTENDS Integers, Sequences, FiniteSets, TLC

VARIABLES
  version,          \* "plain" (lines 1-139) or "dx" (lines 141-419)
  phase,            \* position of the async initialization
  fetchCount,       \* number of token requests issued
  token,            \* token returned by fetchDirectLineToken, NoToken before
  directLine,       \* the DirectLine session: NoSession or [token |-> t]
  activitySub,      \* activity$ has a subscriber
  statusSub,        \* connectionStatus$ has a subscriber
  wired,            \* the submit handler is attached (listeners / dxChat widget)
  connectionStatus, \* current value of DirectLine's connectionStatus$
  streamErrored,    \* activity$ has terminated with an error
  now,              \* the latest reading of the clock (Date.now(), new Date())
  disabled,         \* CHAT_DISABLED_CLASS is set on the chat element
  focused,          \* the text area has the focus
  typingUsers,      \* dxChat option typingUsers
  dataSource,       \* changes pushed to dataSource.store(), in order
  chatContainer,    \* children appended to #chat (plain page)
  inputField,       \* inputField.value (plain page)
  posts,            \* postActivity calls, in order: [activity, outcome]
  submitted,        \* history: the values the user submitted, in order
  inbound,          \* history: activities delivered to the activity$ subscriber
  answered,         \* history: indices of posts followed by a bot message
  errorLog          \* console.error output of the initialization path

vars == <<version, phase, fetchCount, token, directLine, activitySub, statusSub,
          wired, connectionStatus, streamErrored, now, disabled, focused,
          typingUsers, dataSource, chatContainer, inputField, posts,
          submitted, inbound, answered, errorLog>>

\* ---------------------------------------------------------------- bounds
MaxEvents == 2
MaxClock == 1

\* ------------------------------------------------------------- constants
CHAT_DISABLED_CLASS == "dx-chat-disabled"
user == [id |-> "user", name |-> "You"]
assistant == [id |-> "null", name |-> "Virtual Assistant"]
\* the plain page takes user.id from Date.now() at load time
plainUser == [id |-> "loadtime", name |-> "You"]
botId == "bot"

NoToken == "none"
NoSession == [token |-> "no-session"]
Tokens == {"tokA"}
FetchFailures == {"status 403", "rejected"}
ParseFailures == {"bad json"}
SendErrors == {"e502"}
Statuses == 0 .. 5
ActivityTexts == {<<"h">>, <<"y">>}
UserTexts == {<<"a">>}

ERR_FETCH == "Error fetching Direct Line token:"
ERR_INIT_DX == "Failed to initialize chat:"
ERR_INIT_PLAIN == "Error initializing chat:"
MSG_INIT_PLAIN == <<"Error initializing chat. Please try again later.">>
MSG_RECV_PLAIN == <<"Error receiving messages from the bot.">>
MSG_RECV_DX == <<"Error receiving messages from the assistant.">>
SEND_ERROR_PREFIX == "Error sending message: "

currentUser == IF version = "dx" THEN user ELSE plainUser

\* ------------------------------------------------------- pure functions
\* The characters String.prototype.trim strips: WhiteSpace and LineTerminator
\* of ECMAScript.  A character that is not ASCII, and the vertical tab, is
\* written as its \u escape.
NBSP == "\\u00a0"
WhiteSpace ==
  {"\t", "\n", "\\u000b", "\f", "\r", " ", NBSP, "\\u1680",
   "\\u2000", "\\u2001", "\\u2002", "\\u2003", "\\u2004", "\\u2005",
   "\\u2006", "\\u2007", "\\u2008", "\\u2009", "\\u200a",
   "\\u2028", "\\u2029", "\\u202f", "\\u205f", "\\u3000", "\\ufeff"}

\* String.prototype.trim on a sequence of characters
RECURSIVE trimLeft(_)
trimLeft(s) ==
  IF s = <<>> THEN s
  ELSE IF Head(s) \in WhiteSpace THEN trimLeft(Tail(s)) ELSE s

RECURSIVE trimRight(_)
trimRight(s) ==
  IF s = <<>> THEN s
  ELSE IF s[Len(s)] \in WhiteSpace
       THEN trimRight(SubSeq(s, 1, Len(s) - 1)) ELSE s

trim(s) == trimRight(trimLeft(s))

\* values of the input field: empty, blank (a space and a tab), plain, and
\* padded with a line feed and a no-break space around an inner space
InputValues ==
  {<<>>, <<" ", "\t">>, <<"a">>, <<"\n", "a", " ", "a", NBSP>>}

\* appendMessage(text, className)
appendMessage(container, text, className) ==
  Append(container, [text |-> text, className |-> className])

\* The clock never goes back and may give the same value twice: a reading is
\* any value from the latest reading on.
Readings(latest) == latest .. MaxClock

\* variant: the change is put in front of the earlier ones
renderAssistantMessage_Front(ds, text, first, later) ==
  <<[type |-> "insert",
     data |-> [id |-> first, timestamp |-> later,
               author |-> assistant, text |-> text]]>> \o ds

\* renderAssistantMessage(dataSource, text): the pushed insert change.  The
\* clock is read twice: first by Date.now() for id, later by new Date() for
\* timestamp.
renderAssistantMessage(ds, text, first, later) ==
  Append(ds, [type |-> "insert",
              data |-> [id |-> first, timestamp |-> later,
                        author |-> assistant, text |-> text]])

\* ------------------------------------------------------------------ Init
Init ==
  /\ version \in {"plain", "dx"}
  /\ phase = "idle"
  /\ fetchCount = 0
  /\ token = NoToken
  /\ directLine = NoSession
  /\ activitySub = FALSE
  /\ statusSub = FALSE
  /\ wired = FALSE
  /\ connectionStatus = 0
  /\ streamErrored = FALSE
  /\ now = 0
  /\ disabled = FALSE
  /\ focused = FALSE
  /\ typingUsers = <<>>
  /\ dataSource = <<>>
  /\ chatContainer = <<>>
  /\ inputField = <<>>
  /\ posts = <<>>
  /\ submitted = <<>>
  /\ inbound = <<>>
  /\ answered = {}
  /\ errorLog = <<>>

\* -------------------------------------------------------- initialization
\* main() / the jQuery ready handler run up to the first await: the token
\* request is sent.
Start ==
  /\ phase = "idle"
  /\ phase' = "fetching"
  /\ fetchCount' = fetchCount + 1
  /\ UNCHANGED <<version, token, directLine, activitySub, statusSub, wired,
                 connectionStatus, streamErrored, now, disabled, focused,
                 typingUsers, dataSource, chatContainer, inputField, posts,
                 submitted, inbound, answered, errorLog>>

\* variant: fetchDirectLineToken logs the error and does not rethrow it, so the
\* initialization goes on with an undefined token
InitFailed_Swallow ==
  /\ phase' = "ready"
  /\ errorLog' = Append(errorLog, ERR_FETCH)
  /\ token' = "undefined"
  /\ directLine' = [token |-> "undefined"]
  /\ activitySub' = TRUE
  /\ statusSub' = TRUE
  /\ wired' = TRUE
  /\ UNCHANGED <<version, fetchCount, connectionStatus, streamErrored, now,
                 disabled, focused, typingUsers, dataSource, chatContainer,
                 inputField, posts, submitted, inbound, answered>>

\* what the two catch blocks do when fetchDirectLineToken throws: it logs and
\* rethrows, the caller's catch logs (and, on the plain page, appends a note)
InitFailed ==
  /\ phase' = "failed"
  /\ errorLog' = errorLog \o
       <<ERR_FETCH, IF version = "dx" THEN ERR_INIT_DX ELSE ERR_INIT_PLAIN>>
  /\ chatContainer' = IF version = "dx" THEN chatContainer
                      ELSE appendMessage(chatContainer, MSG_INIT_PLAIN, "bot")
  /\ UNCHANGED <<version, fetchCount, token, directLine, activitySub,
                 statusSub, wired, connectionStatus, streamErrored, now,
                 disabled, focused, typingUsers, dataSource, inputField,
                 posts, submitted, inbound, answered>>

\* fetch resolves with response.ok: fetchDirectLineToken awaits response.json()
FetchResponseOk ==
  /\ phase = "fetching"
  /\ phase' = "parsing"
  /\ UNCHANGED <<version, fetchCount, token, directLine, activitySub,
                 statusSub, wired, connectionStatus, streamErrored, now,
                 disabled, focused, typingUsers, dataSource, chatContainer,
                 inputField, posts, submitted, inbound, answered, errorLog>>

\* fetch rejects, or resolves with !response.ok
FetchFails(f) ==
  /\ phase = "fetching"
  /\ f \in FetchFailures
  /\ InitFailed

\* response.json() rejects
ParseFails(f) ==
  /\ phase = "parsing"
  /\ f \in ParseFailures
  /\ InitFailed

\* variant: the widget / the listeners are attached but the subscriptions to
\* activity$ and connectionStatus$ are not made
InitCompletes_NoSubscribe(t) ==
  /\ phase = "parsing"
  /\ phase' = "ready"
  /\ token' = t
  /\ directLine' = [token |-> t]
  /\ wired' = TRUE
  /\ UNCHANGED <<version, fetchCount, activitySub, statusSub, connectionStatus,
                 streamErrored, now, disabled, focused, typingUsers,
                 dataSource, chatContainer, inputField, posts, submitted,
                 inbound, answered, errorLog>>

\* response.json() resolves: the token is returned, the session is created and
\* the rest of the initialization runs synchronously to its end.
InitCompletes(t) ==
  /\ phase = "parsing"
  /\ phase' = "ready"
  /\ token' = t
  /\ directLine' = [token |-> t]
  /\ activitySub' = TRUE
  /\ statusSub' = TRUE
  /\ wired' = TRUE
  /\ UNCHANGED <<version, fetchCount, connectionStatus, streamErrored, now,
                 disabled, focused, typingUsers, dataSource, chatContainer,
                 inputField, posts, submitted, inbound, answered, errorLog>>

\* ------------------------------------------------------------ dxChat page
\* variant: the class is left as it is
toggleDisabledState_Keep(d) == [disabled |-> disabled, focused |-> ~d]

\* toggleDisabledState(disabled, instance, textArea): the class and the focus
toggleDisabledState(d) == [disabled |-> d, focused |-> ~d]

\* the activity postMessage / handleSendMessage hand to postActivity
outboundActivity(text) == [from |-> currentUser, type |-> "message", text |-> text]

\* chatService.postActivity(activity).subscribe(...): one call, outcome pending
postActivity(ps, activity) ==
  Append(ps, [activity |-> activity, outcome |-> "pending"])

\* an id the widget gives a message itself: no reading of the clock
WidgetId == -1

\* e.message of onMessageEntered: the widget built it, with the user as
\* author and a reading of the clock as timestamp, before it ran the handler;
\* it may carry an id
Messages ==
  [timestamp : 0 .. MaxClock, author : {user}, text : UserTexts]
  \cup [id : {WidgetId}, timestamp : 0 .. MaxClock, author : {user},
        text : UserTexts]

\* the insert change onMessageEntered pushes for e.message:
\* { id: Date.now(), ...message }, where a field of message wins
userInsert(message, reading) ==
  [type |-> "insert", data |-> message @@ [id |-> reading]]

\* variant: the sender is not looked at
isBotMessage_AnySender(activity) == activity.type = "message"

\* fromAssistant && type === 'message' (both pages use the same test)
isBotMessage(activity) ==
  activity.type = "message" /\ activity.from.id # currentUser.id

\* what activity$ can deliver: a message of the bot with either text, the echo
\* of a message of the user, and an activity that is no message
Activities ==
  {[type |-> "message", from |-> [id |-> botId], text |-> t] : t \in ActivityTexts}
  \cup {[type |-> "message", from |-> [id |-> currentUser.id], text |-> <<"a">>],
        [type |-> "typing", from |-> [id |-> botId], text |-> <<>>]}

\* the activities of either page
AllActivities ==
  {[type |-> "message", from |-> [id |-> id], text |-> t] :
     id \in {botId, user.id, plainUser.id}, t \in ActivityTexts \cup {<<"a">>}}
  \cup {[type |-> "typing", from |-> [id |-> botId], text |-> <<>>]}

\* chatOptions.onMessageEntered: push the user's message, then postMessage
onMessageEntered(message) ==
  /\ version = "dx"
  /\ wired
  /\ Len(submitted) + Len(inbound) < MaxEvents
  /\ message \in Messages
  /\ message.timestamp \in Readings(now)
  /\ \E reading \in Readings(message.timestamp) :
       /\ dataSource' = Append(dataSource, userInsert(message, reading))
       /\ now' = reading
  /\ disabled' = toggleDisabledState(TRUE).disabled
  /\ focused' = toggleDisabledState(TRUE).focused
  /\ typingUsers' = <<assistant>>
  /\ posts' = postActivity(posts, outboundActivity(message.text))
  /\ submitted' = Append(submitted, message.text)
  /\ UNCHANGED <<version, phase, fetchCount, token, directLine, activitySub,
                 statusSub, wired, connectionStatus, streamErrored,
                 chatContainer, inputField, inbound, answered, errorLog>>

\* subscribeToChatActivities.handleMessage
handleMessage(activity) ==
  /\ version = "dx"
  /\ activitySub
  /\ ~streamErrored
  /\ Len(submitted) + Len(inbound) < MaxEvents
  /\ activity \in Activities
  /\ inbound' = Append(inbound, activity)
  /\ IF isBotMessage(activity)
     THEN /\ typingUsers' = <<>>
          /\ \E first \in Readings(now) : \E later \in Readings(first) :
               /\ dataSource' = renderAssistantMessage(dataSource, activity.text, first, later)
               /\ now' = later
          /\ disabled' = toggleDisabledState(FALSE).disabled
          /\ focused' = toggleDisabledState(FALSE).focused
          /\ answered' = 1 .. Len(posts)
     ELSE UNCHANGED <<typingUsers, dataSource, disabled, focused, answered, now>>
  /\ UNCHANGED <<version, phase, fetchCount, token, directLine, activitySub,
                 statusSub, wired, connectionStatus, streamErrored,
                 chatContainer, inputField, posts, submitted, errorLog>>

\* subscribeToChatActivities.handleError: activity$ terminates with an error
handleError ==
  /\ version = "dx"
  /\ activitySub
  /\ ~streamErrored
  /\ streamErrored' = TRUE
  /\ \E first \in Readings(now) : \E later \in Readings(first) :
       /\ dataSource' = renderAssistantMessage(dataSource, MSG_RECV_DX, first, later)
       /\ now' = later
  /\ UNCHANGED <<version, phase, fetchCount, token, directLine, activitySub,
                 statusSub, wired, connectionStatus, disabled, focused,
                 typingUsers, chatContainer, inputField, posts, submitted,
                 inbound, answered, errorLog>>

\* handleConnectionStatus / the plain page's switch: logging only
handleConnectionStatus(status) ==
  /\ statusSub
  /\ status \in Statuses
  /\ connectionStatus' = status
  /\ UNCHANGED <<version, phase, fetchCount, token, directLine, activitySub,
                 statusSub, wired, streamErrored, now, disabled, focused,
                 typingUsers, dataSource, chatContainer, inputField, posts,
                 submitted, inbound, answered, errorLog>>

\* success callback of postActivity(...).subscribe: logging only (both pages)
postSucceeded(i) ==
  /\ i \in 1 .. Len(posts)
  /\ posts[i].outcome = "pending"
  /\ posts' = [posts EXCEPT ![i].outcome = "ok"]
  /\ UNCHANGED <<version, phase, fetchCount, token, directLine, activitySub,
                 statusSub, wired, connectionStatus, streamErrored, now,
                 disabled, focused, typingUsers, dataSource, chatContainer,
                 inputField, submitted, inbound, answered, errorLog>>

\* variant: the error callback posts the activity again
postFailed_Retry(i, error) ==
  /\ version = "dx"
  /\ i \in 1 .. Len(posts)
  /\ posts[i].outcome = "pending"
  /\ error \in SendErrors
  /\ posts' = postActivity([posts EXCEPT ![i].outcome = "error"], posts[i].activity)
  /\ typingUsers' = <<>>
  /\ \E first \in Readings(now) : \E later \in Readings(first) :
       /\ dataSource' =
            renderAssistantMessage(dataSource, <<SEND_ERROR_PREFIX, error>>,
                                   first, later)
       /\ now' = later
  /\ disabled' = toggleDisabledState(FALSE).disabled
  /\ focused' = toggleDisabledState(FALSE).focused
  /\ UNCHANGED <<version, phase, fetchCount, token, directLine, activitySub,
                 statusSub, wired, connectionStatus, streamErrored, chatContainer, inputField, submitted, inbound, answered,
                 errorLog>>

\* variant: the error callback reports the error and leaves the input disabled
postFailed_StayDisabled(i, error) ==
  /\ version = "dx"
  /\ i \in 1 .. Len(posts)
  /\ posts[i].outcome = "pending"
  /\ error \in SendErrors
  /\ posts' = [posts EXCEPT ![i].outcome = "error"]
  /\ typingUsers' = <<>>
  /\ \E first \in Readings(now) : \E later \in Readings(first) :
       /\ dataSource' =
            renderAssistantMessage(dataSource, <<SEND_ERROR_PREFIX, error>>,
                                   first, later)
       /\ now' = later
  /\ UNCHANGED <<version, phase, fetchCount, token, directLine, activitySub,
                 statusSub, wired, connectionStatus, streamErrored, disabled, focused, chatContainer, inputField, submitted,
                 inbound, answered, errorLog>>

\* error callback of postActivity(...).subscribe in postMessage
postFailed(i, error) ==
  /\ version = "dx"
  /\ i \in 1 .. Len(posts)
  /\ posts[i].outcome = "pending"
  /\ error \in SendErrors
  /\ posts' = [posts EXCEPT ![i].outcome = "error"]
  /\ typingUsers' = <<>>
  /\ \E first \in Readings(now) : \E later \in Readings(first) :
       /\ dataSource' =
            renderAssistantMessage(dataSource, <<SEND_ERROR_PREFIX, error>>,
                                   first, later)
       /\ now' = later
  /\ disabled' = toggleDisabledState(FALSE).disabled
  /\ focused' = toggleDisabledState(FALSE).focused
  /\ UNCHANGED <<version, phase, fetchCount, token, directLine, activitySub,
                 statusSub, wired, connectionStatus, streamErrored, chatContainer, inputField, submitted, inbound, answered,
                 errorLog>>

\* ------------------------------------------------------------- plain page
\* handleSendMessage(directLine), from the click or the Enter listener, with
\* value in the input field when the listener runs
handleSendMessage(value) ==
  /\ version = "plain"
  /\ wired
  /\ Len(submitted) + Len(inbound) < MaxEvents
  /\ value \in InputValues
  /\ submitted' = Append(submitted, value)
  /\ LET message == trim(value) IN
       IF message = <<>>
       THEN /\ inputField' = value
            /\ UNCHANGED <<chatContainer, posts>>
       ELSE /\ chatContainer' = appendMessage(chatContainer, message, "user")
            /\ posts' = postActivity(posts, outboundActivity(message))
            /\ inputField' = <<>>
  /\ UNCHANGED <<version, phase, fetchCount, token, directLine, activitySub,
                 statusSub, wired, connectionStatus, streamErrored, now,
                 disabled, focused, typingUsers, dataSource, inbound,
                 answered, errorLog>>

\* initChat: the next callback of activity$.subscribe
plainActivity(activity) ==
  /\ version = "plain"
  /\ activitySub
  /\ ~streamErrored
  /\ Len(submitted) + Len(inbound) < MaxEvents
  /\ activity \in Activities
  /\ inbound' = Append(inbound, activity)
  /\ IF isBotMessage(activity)
     THEN /\ chatContainer' = appendMessage(chatContainer, activity.text, "bot")
          /\ answered' = 1 .. Len(posts)
     ELSE UNCHANGED <<chatContainer, answered>>
  /\ UNCHANGED <<version, phase, fetchCount, token, directLine, activitySub,
                 statusSub, wired, connectionStatus, streamErrored, now,
                 disabled, focused, typingUsers, dataSource, inputField,
                 posts, submitted, errorLog>>

\* initChat: the error callback of activity$.subscribe
plainActivityError ==
  /\ version = "plain"
  /\ activitySub
  /\ ~streamErrored
  /\ streamErrored' = TRUE
  /\ chatContainer' = appendMessage(chatContainer, MSG_RECV_PLAIN, "bot")
  /\ UNCHANGED <<version, phase, fetchCount, token, directLine, activitySub,
                 statusSub, wired, connectionStatus, now, disabled, focused,
                 typingUsers, dataSource, inputField, posts, submitted,
                 inbound, answered, errorLog>>

\* error callback of postActivity(...).subscribe in handleSendMessage: logging
plainPostFailed(i) ==
  /\ version = "plain"
  /\ i \in 1 .. Len(posts)
  /\ posts[i].outcome = "pending"
  /\ posts' = [posts EXCEPT ![i].outcome = "error"]
  /\ UNCHANGED <<version, phase, fetchCount, token, directLine, activitySub,
                 statusSub, wired, connectionStatus, streamErrored, now,
                 disabled, focused, typingUsers, dataSource, chatContainer,
                 inputField, submitted, inbound, answered, errorLog>>

Next ==
  \/ Start
  \/ FetchResponseOk
  \/ \E f \in FetchFailures : FetchFails(f)
  \/ \E f \in ParseFailures : ParseFails(f)
  \/ \E t \in Tokens : InitCompletes(t)
  \/ \E activity \in AllActivities : handleMessage(activity)
  \/ \E message \in Messages : onMessageEntered(message)
  \/ handleError
  \/ \E status \in Statuses : handleConnectionStatus(status)
  \/ \E i \in 1 .. MaxEvents : postSucceeded(i)
  \/ \E i \in 1 .. MaxEvents, error \in SendErrors : postFailed(i, error)
  \/ \E value \in InputValues : handleSendMessage(value)
  \/ \E activity \in AllActivities : plainActivity(activity)
  \/ plainActivityError
  \/ \E i \in 1 .. MaxEvents : plainPostFailed(i)

Spec == Init /\ [][Next]_vars

\* ================================================================ claims
\* ------------------------------------------------------ derived notions
isUserInsert(change) == change.data.author = user
isReplyInsert(change) == change.data.text \in ActivityTexts
isSendErrorInsert(change) ==
  /\ change.type = "insert"
  /\ change.data.author = assistant
  /\ change.data.text # <<>>
  /\ Head(change.data.text) = SEND_ERROR_PREFIX
isUserChild(child) == child.className = "user"

textsOfChanges(changes) == [i \in 1 .. Len(changes) |-> changes[i].data.text]
textsOfActivities(acts) == [i \in 1 .. Len(acts) |-> acts[i].text]
textsOfChildren(children) == [i \in 1 .. Len(children) |-> children[i].text]

\* the messages the submitted values amount to: every value on the dxChat
\* page, the trimmed non-empty ones on the plain page
RECURSIVE messagesOf(_)
messagesOf(values) ==
  IF values = <<>> THEN <<>>
  ELSE IF version = "dx" THEN <<Head(values)>> \o messagesOf(Tail(values))
  ELSE IF trim(Head(values)) = <<>> THEN messagesOf(Tail(values))
  ELSE <<trim(Head(values))>> \o messagesOf(Tail(values))

\* a bot reply as the claims define it: type 'message', from.id not user.id
isReply(activity) ==
  activity.type = "message" /\ activity.from.id # currentUser.id

\* the step delivers a bot reply to the activity$ subscriber
BotReplyStep ==
  /\ Len(inbound') = Len(inbound) + 1
  /\ isReply(inbound'[Len(inbound')])

\* the step delivers an activity that is no bot reply
OtherActivityStep ==
  /\ Len(inbound') = Len(inbound) + 1
  /\ ~isReply(inbound'[Len(inbound')])

\* the step is the error callback of the i-th postActivity call
SendErrorStep(i) ==
  /\ i \in 1 .. Len(posts)
  /\ Len(posts') >= i
  /\ posts[i].outcome = "pending"
  /\ posts'[i].outcome = "error"

\* the step is onMessageEntered / a handleSendMessage that sends
SubmitStep == Len(posts') = Len(posts) + 1 /\ Len(submitted') = Len(submitted) + 1

\* a submitted message with neither a bot reply nor a send error
AwaitingReply ==
  \E i \in 1 .. Len(posts) : i \notin answered /\ posts[i].outcome # "error"

\* ------------------------------------------------------------------- C1
\* C1 (as stated): on the dxChat page a submit leaves the chat disabled with
\* typingUsers = [assistant], and a disabled chat stays disabled in every step
\* that is neither a bot message nor the error callback of the latest
\* postActivity call.
C1_DisabledUntilReplyOrOwnError ==
  [][version = "dx" =>
       /\ (SubmitStep => disabled' /\ typingUsers' = <<assistant>>)
       /\ (disabled /\ ~SubmitStep /\ ~BotReplyStep /\ ~SendErrorStep(Len(posts))
             => disabled')]_vars

\* ------------------------------------------------------------------- C2
\* C2 (as stated): whenever the chat is disabled, some submitted message has
\* had neither a bot reply nor a send error, and the activity stream has not
\* terminated with an error.
C2_DisabledOnlyWhileAwaiting ==
  disabled => AwaitingReply /\ ~streamErrored

\* ------------------------------------------------------------------- C3
\* C3: on the dxChat page the insert changes that carry a bot text are, in
\* order, exactly the texts of the bot messages delivered so far, each pushed
\* as an insert authored by the assistant.
C3_RepliesInArrivalOrder ==
  version = "dx" =>
    /\ textsOfChanges(SelectSeq(dataSource, isReplyInsert))
         = textsOfActivities(SelectSeq(inbound, isReply))
    /\ \A i \in 1 .. Len(dataSource) :
         isReplyInsert(dataSource[i]) =>
           dataSource[i].type = "insert" /\ dataSource[i].data.author = assistant

C3_Witness ==
  /\ version = "dx"
  /\ Len(inbound) = 2
  /\ isReply(inbound[1]) /\ isReply(inbound[2])
  /\ inbound[1].text # inbound[2].text
  /\ Len(dataSource) = 2

\* ------------------------------------------------------------------- C4
\* C4: the postActivity calls are, in order, exactly one per submitted
\* (non-empty) message, each carrying from = user, type = 'message' and the
\* message's text; the user messages shown are the same messages in the same
\* order; a failed call is not repeated.
C4_OnePostPerSubmit ==
  LET messages == messagesOf(submitted) IN
    /\ Len(posts) = Len(messages)
    /\ \A i \in 1 .. Len(posts) :
         posts[i].activity =
           [from |-> currentUser, type |-> "message", text |-> messages[i]]
    /\ IF version = "dx"
       THEN textsOfChanges(SelectSeq(dataSource, isUserInsert)) = messages
       ELSE textsOfChildren(SelectSeq(chatContainer, isUserChild)) = messages

C4_Witness ==
  /\ Len(posts) = 2
  /\ posts[1].outcome = "error"
  /\ posts[2].outcome = "ok"

\* ------------------------------------------------------------------- C5
\* C5: whenever the submit handler is attached or a postActivity call has been
\* made, the token fetch has succeeded, the session holds that token and both
\* subscriptions are in place.
C5_InitOrdered ==
  (wired \/ posts # <<>> \/ submitted # <<>>) =>
    /\ phase = "ready"
    /\ token \in Tokens
    /\ directLine = [token |-> token]
    /\ activitySub
    /\ statusSub

C5_Witness == posts # <<>> /\ inbound # <<>> /\ connectionStatus = 2

\* ------------------------------------------------------------------- C6
\* C6: once fetchDirectLineToken has caught an error, the initialization is
\* in its failed state, where the caller has logged the rethrown error, and
\* stays there: no session, no subscription, no submit handler, no
\* postActivity call; exactly one token request is ever made.
C6_TokenFailureStopsInit ==
  [][/\ fetchCount' = (IF phase' = "idle" THEN 0 ELSE 1)
     /\ errorLog' # <<>> =>
          /\ phase' = "failed"
          /\ errorLog' =
               <<ERR_FETCH, IF version = "dx" THEN ERR_INIT_DX ELSE ERR_INIT_PLAIN>>
          /\ directLine' = NoSession
          /\ token' = NoToken
          /\ ~activitySub' /\ ~statusSub' /\ ~wired'
          /\ posts' = <<>> /\ submitted' = <<>>]_vars

C6_Witness == phase = "failed" /\ errorLog # <<>> /\ version = "plain"

\* ------------------------------------------------------------------- C7
\* C7: the error callback of a postActivity call on the dxChat page clears
\* typingUsers, pushes exactly one insert authored by the assistant whose text
\* starts with 'Error sending message: ', keeps every earlier change, and
\* leaves the chat enabled whether or not it was disabled before.
C7_SendErrorReenables ==
  [][\A i \in 1 .. MaxEvents :
       (version = "dx" /\ SendErrorStep(i)) =>
         /\ typingUsers' = <<>>
         /\ ~disabled'
         /\ Len(dataSource') = Len(dataSource) + 1
         /\ SubSeq(dataSource', 1, Len(dataSource)) = dataSource
         /\ isSendErrorInsert(dataSource'[Len(dataSource')])]_vars

C7_Witness ==
  /\ version = "dx"
  /\ Len(posts) = 1
  /\ posts[1].outcome = "error"
  /\ 1 \in answered
  /\ isSendErrorInsert(dataSource[Len(dataSource)])
  /\ isUserInsert(dataSource[1])
  /\ ~disabled

\* ------------------------------------------------------------------- C8
\* C8: a delivered activity that is not a message of the bot (another type, or
\* the echo of the user's own message) and a connection-status notification
\* leave the pushed changes, the appended children, the disabled state and
\* typingUsers as they were.
C8_NonRepliesChangeNothing ==
  [][(OtherActivityStep \/ connectionStatus' # connectionStatus) =>
       UNCHANGED <<dataSource, chatContainer, disabled, typingUsers>>]_vars

C8_Witness ==
  /\ version = "dx"
  /\ Len(inbound) = 1
  /\ inbound[1].type = "message" /\ inbound[1].from.id = user.id
  /\ connectionStatus = 5
  /\ disabled
  /\ dataSource # <<>>

\* ------------------------------------------------------------------- C9
\* C9: on the dxChat page the chat is disabled exactly when typingUsers is
\* [assistant], before and after every step, and only a submit, a bot reply or
\* the error callback of a postActivity call changes either of the two.
C9_DisabledIffTyping ==
  [][version = "dx" =>
       /\ disabled <=> typingUsers = <<assistant>>
       /\ disabled' <=> typingUsers' = <<assistant>>
       /\ (disabled' # disabled \/ typingUsers' # typingUsers) =>
            \/ SubmitStep
            \/ BotReplyStep
            \/ \E i \in 1 .. Len(posts) : SendErrorStep(i)]_vars

C9_Witness ==
  /\ version = "dx"
  /\ disabled
  /\ typingUsers = <<assistant>>
  /\ Len(posts) = 2
  /\ posts[1].outcome = "error"

\* ------------------------------------------------------------------ C10
\* C10 (as stated): the messages pushed to the store keyed by 'id' have
\* pairwise distinct ids.
C10_DistinctIds ==
  \A i, j \in 1 .. Len(dataSource) :
    i # j => dataSource[i].data.id # dataSource[j].data.id
====
